---- MODULE Spec2Model ----
(***************************************************************************)
(* A model of bot.py: the market-push loop, the thread supervisors, the    *)
(* polling wrapper, the main thread's shutdown, the admin command handlers *)
(* that touch the destination list, and the snapshot formatter.            *)
(*                                                                         *)
(* Time is discrete (one Tick = one second).  A computation step takes no  *)
(* time: Tick is enabled only when every thread is sleeping, blocked in    *)
(* network I/O, or gone.  Network I/O (an OKX fetch, a Telegram send, the  *)
(* long poll) takes any amount of time.                                    *)
(***************************************************************************)
EXTENDS Integers, Sequences, FiniteSets, TLC

\* ------------------------------------------------------------------ bounds

\* Longest destination list the handlers let grow.
MaxDests == 3
\* The ghost counter of consecutive crash restarts saturates here.
MaxRestarts == 5
\* Largest configured MARKET_PUSH_INTERVAL tried.
MaxInterval == 2
\* Last prices are tried from 0.50 up to MaxPrice half dollars.
MaxPrice == 3
\* The first MaxVaried symbols are tried with every price and with none; the
\* others with the lowest price and with none.
MaxVaried == 3
\* Versions of the exchange's data while tickers are fetched.
MaxFeed == 2
\* Longest admin list the handlers let grow.
MaxAdmins == 3

\* ------------------------------------------------------- program constants

\* time.sleep(1) steps: the interval sleep of market_push_loop and main's
\* last sleep before os._exit(0).
SleepStep == 1

\* time.sleep(5) in ThreadSupervisor.run's except branch.
CrashDelay_Short == SleepStep
CrashDelay == 5
\* time.sleep(60) of the heartbeat lambda.
HeartbeatSleep == 60
\* time.sleep(10) and time.sleep(5) of start_polling's except clauses.
ApiErrorSleep == 10
PollErrorSleep == 5

\* Python's None in a field that otherwise holds a number: apart from every
\* price, change and volume tried.
None == 0 - 1000000

Max(a, b) == IF a >= b THEN a ELSE b
Min(a, b) == IF a <= b THEN a ELSE b

\* ------------------------------------------------------------------- state

Sups == {"market", "heartbeat"}
Threads == Sups \cup {"polling", "main"}

VARIABLES
    alive,                 \* FALSE once os._exit(0) has ended the process
    stop_event,            \* threading.Event: the process-wide shutdown flag
    ADMIN_IDS,             \* list of admin user ids
    MARKET_PUSH_CHAT_IDS,  \* list of destination chat ids
    MARKET_PUSH_INTERVAL,  \* int(os.getenv("MARKET_PUSH_INTERVAL", "600"))
    pc,                    \* where each thread is
    timer,                 \* seconds left of each thread's current time.sleep
    loop,                  \* market_push_loop: idx, the position of its for
                           \* statement in the list; left, the sleep steps to
                           \* go; sent, the sends of the cycle under way; start,
                           \* the list as it was when that cycle began; last, how
                           \* the cycle body that has just ended did end
    ended,                 \* per supervisor: how its task last ended, and the
                           \* seconds elapsed since
    crashes,               \* per supervisor: consecutive crash restarts so far
    handlers,              \* the bot's worker threads, each running one handler
    tickers,               \* a result of fetch_okx_tickers(SYMBOLS)
    out,                   \* what the formatter or /market made of it
    resp,                  \* the answer of the exchange to one ticker request
    ticker,                \* what fetch_okx_ticker made of it
    feed,                  \* the exchange: the version of its data, and the
                           \* symbols whose requests fail
    readers,               \* the calls of fetch_okx_tickers under way
    frames                 \* the locals of their calls of fetch_okx_ticker

fmtVars == << tickers, out >>

fetchVars == << resp, ticker, feed, readers, frames >>

vars == << alive, stop_event, ADMIN_IDS, MARKET_PUSH_CHAT_IDS,
           MARKET_PUSH_INTERVAL, pc, timer, loop, ended, crashes, handlers,
           tickers, out, resp, ticker, feed, readers, frames >>

\* ------------------------------------------------- configuration (startup)

\* One comma separated piece of an environment value: decimal digits, a minus
\* sign followed by digits, or anything else.
Digits1 == << "digits", 1 >>
Minus1 == << "minus", 1 >>
Junk == << "junk", 0 >>

\* The environment values tried: unset, one id, a stray piece, a group id,
\* and an id written twice.
EnvLists == { <<>>, << Digits1 >>, << Junk, Digits1 >>, << Minus1 >>,
              << Minus1, Minus1 >>, << Digits1, Digits1 >> }

\* x.strip().isdigit()
isdigit(tok) == tok[1] = "digits"
\* x.strip().lstrip("-").isdigit()
isdigit_signed(tok) == tok[1] \in {"digits", "minus"}
\* int(x)
int(tok) == IF tok[1] = "minus" THEN 0 - tok[2] ELSE tok[2]

MapInt(q) == [ i \in 1..Len(q) |-> int(q[i]) ]

\* ADMIN_IDS as the module body builds it from ADMIN_IDS and ADMIN_ID.
ParseAdminIds(raw, single) ==
    LET ids == MapInt(SelectSeq(raw, isdigit))
    IN  IF ids = <<>> /\ single # 0 THEN << single >> ELSE ids

\* MARKET_PUSH_CHAT_IDS as the module body builds it, with the default to
\* the first admin.
ParsePushChatIds(raw, admins) ==
    LET ids == MapInt(SelectSeq(raw, isdigit_signed))
    IN  IF ids = <<>> /\ admins # <<>> THEN << admins[1] >> ELSE ids

\* user_id in ADMIN_IDS
InList(x, q) == \E i \in 1..Len(q) : q[i] = x
is_admin_Everyone(user_id) == TRUE
is_admin(user_id) == InList(user_id, ADMIN_IDS)

\* The values MARKET_PUSH_INTERVAL is tried with (zero and a negative one included).
Intervals == {0 - 1, 0, MaxInterval}

NoLoop == [ idx |-> 0, left |-> 0, sent |-> <<>>, start |-> <<>>, last |-> "none" ]
NotEnded == [ how |-> "none", since |-> 0 ]

\* The bot's pool of worker threads (telebot.TeleBot(..., threaded=True)).
Workers == 1..2
Idle == [ cmd |-> "idle", gid |-> 0, idx |-> 0, sent |-> <<>>, arg |-> 0,
          text |-> "none" ]

\* ---------------------------------------------------------------- time

IsSleeping(t) == pc[t] \in {"sleeping", "crash_sleep", "hb_sleep", "poll_sleep",
                            "exit_sleep"}

\* A thread that is about to take a step that needs no time.
Urgent(t) ==
    \/ pc[t] \in {"sup_check", "raised", "hb_call", "loop_check", "sleep_check",
                  "poll_check"}
    \/ IsSleeping(t) /\ timer[t] = 0
    \/ t = "market" /\ pc[t] = "deliver" /\ loop.idx > Len(MARKET_PUSH_CHAT_IDS)

UrgentWorker(w) ==
    \/ handlers[w].cmd \in {"bindgroup", "reply", "addadmin", "addadmin_append",
                           "deladmin", "deladmin_remove"}
    \/ handlers[w].cmd = "push_deliver"
          /\ handlers[w].idx > Len(MARKET_PUSH_CHAT_IDS)

Quiet == /\ \A t \in Threads : ~Urgent(t)
         /\ \A w \in Workers : ~UrgentWorker(w)

\* One second passes for every sleeping thread.
Tick ==
    /\ alive
    /\ Quiet
    /\ timer' = [ t \in Threads |-> IF timer[t] > 0 THEN timer[t] - 1 ELSE 0 ]
    /\ ended' = [ s \in Sups |->
                    IF ended[s].how = "none" THEN ended[s]
                    ELSE [ ended[s] EXCEPT !.since = Min(@ + 1, CrashDelay) ] ]
    /\ UNCHANGED << alive, stop_event, ADMIN_IDS, MARKET_PUSH_CHAT_IDS,
                    MARKET_PUSH_INTERVAL, pc, loop, crashes, handlers,
                    fmtVars, fetchVars >>

\* ------------------------------------------------------ ThreadSupervisor

\* The target a supervisor calls: where its task begins.
TargetEntry(s) == IF s = "market" THEN "loop_check" ELSE "hb_call"

\* The task returned: ThreadSupervisor.run is back at its while test.
TaskReturned(s) ==
    /\ pc' = [ pc EXCEPT ![s] = "sup_check" ]
    /\ ended' = [ ended EXCEPT ![s] = [ how |-> "returned", since |-> 0 ] ]

\* The task raised: the exception reaches ThreadSupervisor.run.
TaskRaised(s) == pc' = [ pc EXCEPT ![s] = "raised" ]

\* while not stop_event.is_set(): ... self.target()
SupCheck(s) ==
    /\ alive
    /\ pc[s] = "sup_check"
    /\ IF stop_event
       THEN /\ pc' = [ pc EXCEPT ![s] = "sup_exited" ]
            /\ UNCHANGED << ended, crashes >>
       ELSE /\ pc' = [ pc EXCEPT ![s] = TargetEntry(s) ]
            /\ ended' = [ ended EXCEPT ![s] = NotEnded ]
            /\ crashes' = [ crashes EXCEPT ![s] =
                              IF ended[s].how = "raised"
                              THEN Min(@ + 1, MaxRestarts) ELSE @ ]
    /\ UNCHANGED << alive, stop_event, ADMIN_IDS, MARKET_PUSH_CHAT_IDS,
                    MARKET_PUSH_INTERVAL, timer, loop, handlers, fmtVars,
                    fetchVars >>

\* The supervisors that the exception of s's task puts into the crash delay.
Crashed_All(s) == Sups
Crashed(s) == {s}

\* except Exception: logger.exception(...); time.sleep(5)
SupCatch(s) ==
    /\ alive
    /\ pc[s] = "raised"
    /\ pc' = [ t \in Threads |-> IF t \in Crashed(s) THEN "crash_sleep" ELSE pc[t] ]
    /\ timer' = [ t \in Threads |-> IF t \in Crashed(s) THEN CrashDelay ELSE timer[t] ]
    /\ ended' = [ ended EXCEPT ![s] = [ how |-> "raised", since |-> 0 ] ]
    /\ UNCHANGED << alive, stop_event, ADMIN_IDS, MARKET_PUSH_CHAT_IDS,
                    MARKET_PUSH_INTERVAL, loop, crashes, handlers, fmtVars,
                    fetchVars >>

\* Where ThreadSupervisor.run goes when the crash delay is over.
AfterCrash_Exit == "sup_exited"
AfterCrash == "sup_check"

\* time.sleep(5) is over: back to the while test.
SupWake(s) ==
    /\ alive
    /\ pc[s] = "crash_sleep"
    /\ timer[s] = 0
    /\ pc' = [ pc EXCEPT ![s] = AfterCrash ]
    /\ UNCHANGED << alive, stop_event, ADMIN_IDS, MARKET_PUSH_CHAT_IDS,
                    MARKET_PUSH_INTERVAL, timer, loop, ended, crashes, handlers,
                    fmtVars, fetchVars >>

\* ------------------------------------------------------------- heartbeat

\* The heartbeat target raises as soon as it is called (its logging call
\* fails): the always-failing task of the supervisor's contract.
HbRaise ==
    /\ alive
    /\ pc["heartbeat"] = "hb_call"
    /\ TaskRaised("heartbeat")
    /\ UNCHANGED << alive, stop_event, ADMIN_IDS, MARKET_PUSH_CHAT_IDS,
                    MARKET_PUSH_INTERVAL, timer, loop, ended, crashes, handlers,
                    fmtVars, fetchVars >>

\* lambda: (logger.info("Heartbeat alive"), time.sleep(60))
HbSleep ==
    /\ alive
    /\ pc["heartbeat"] = "hb_call"
    /\ pc' = [ pc EXCEPT !["heartbeat"] = "hb_sleep" ]
    /\ timer' = [ timer EXCEPT !["heartbeat"] = HeartbeatSleep ]
    /\ crashes' = [ crashes EXCEPT !["heartbeat"] = 0 ]
    /\ UNCHANGED << alive, stop_event, ADMIN_IDS, MARKET_PUSH_CHAT_IDS,
                    MARKET_PUSH_INTERVAL, loop, ended, handlers, fmtVars,
                    fetchVars >>

\* time.sleep(60) is over and the lambda returns.
HbReturn ==
    /\ alive
    /\ pc["heartbeat"] = "hb_sleep"
    /\ timer["heartbeat"] = 0
    /\ TaskReturned("heartbeat")
    /\ UNCHANGED << alive, stop_event, ADMIN_IDS, MARKET_PUSH_CHAT_IDS,
                    MARKET_PUSH_INTERVAL, timer, loop, crashes, handlers,
                    fmtVars, fetchVars >>

\* ------------------------------------------------------ market_push_loop

\* The chat ids of a send log, in the order of the sends.
Cids(sent) == [ i \in 1..Len(sent) |-> sent[i].cid ]

\* for _ in range(max(1, int(MARKET_PUSH_INTERVAL)))
SleepSteps == Max(1, MARKET_PUSH_INTERVAL)

\* while not stop_event.is_set(): a new cycle starts, or the loop returns.
LoopCheck ==
    /\ alive
    /\ pc["market"] = "loop_check"
    /\ IF stop_event
       THEN /\ TaskReturned("market")
            /\ UNCHANGED loop
       ELSE /\ pc' = [ pc EXCEPT !["market"] = "fetch" ]
            /\ loop' = [ loop EXCEPT !.idx = 1, !.left = 0,
                                      !.start = MARKET_PUSH_CHAT_IDS ]
            /\ UNCHANGED ended
    /\ UNCHANGED << alive, stop_event, ADMIN_IDS, MARKET_PUSH_CHAT_IDS,
                    MARKET_PUSH_INTERVAL, timer, crashes, handlers, fmtVars,
                    fetchVars >>

\* Where the loop goes when its cycle body raises: the outer except logs
\* the error and the loop goes on to its sleep.
CycleExcept_Propagates == "raised"
CycleExcept == "sleep_check"

\* The locals when the cycle body is over and the sleep loop begins; the
\* send log is kept only while the cycle delivers.
AtSleep(l, how) == [ l EXCEPT !.idx = 0, !.left = SleepSteps, !.sent = <<>>,
                                 !.start = <<>>, !.last = how ]

CycleRaised ==
    /\ pc' = [ pc EXCEPT !["market"] = CycleExcept ]
    /\ loop' = AtSleep(loop, "raised")

\* tickers = fetch_okx_tickers(SYMBOLS); msg = format_market_snapshot_with_pct(tickers)
\* The fetch is network I/O; an error in these two lines is one the outer
\* try sees (fetch_okx_ticker handles the transport's errors itself).
FetchFormat ==
    /\ alive
    /\ pc["market"] = "fetch"
    /\ \E raised \in BOOLEAN :
          IF raised
          THEN CycleRaised
          ELSE /\ pc' = [ pc EXCEPT !["market"] = "deliver" ]
               /\ UNCHANGED loop
    /\ UNCHANGED << alive, stop_event, ADMIN_IDS, MARKET_PUSH_CHAT_IDS,
                    MARKET_PUSH_INTERVAL, timer, ended, crashes, handlers,
                    fmtVars, fetchVars >>

\* Whether the except clause around bot.send_message catches the error of
\* one destination.
SendCaught_No == FALSE
SendCaught == TRUE

\* for cid in MARKET_PUSH_CHAT_IDS: try: bot.send_message(cid, ...)
\* The for statement reads the live list by position.
Deliver ==
    /\ alive
    /\ pc["market"] = "deliver"
    /\ loop.idx <= Len(MARKET_PUSH_CHAT_IDS)
    /\ \E ok \in BOOLEAN :
          LET tried == [ loop EXCEPT !.sent =
                            Append(@, [ cid |-> MARKET_PUSH_CHAT_IDS[loop.idx],
                                        ok |-> ok ]) ]
          IN  IF ok \/ SendCaught
              THEN /\ loop' = [ tried EXCEPT !.idx = @ + 1 ]
                   /\ UNCHANGED pc
              ELSE /\ pc' = [ pc EXCEPT !["market"] = CycleExcept ]
                   /\ loop' = AtSleep(tried, "raised")
    /\ UNCHANGED << alive, stop_event, ADMIN_IDS, MARKET_PUSH_CHAT_IDS,
                    MARKET_PUSH_INTERVAL, timer, ended, crashes, handlers,
                    fmtVars, fetchVars >>

\* The for statement is exhausted: logger.info("Market snapshot pushed ...")
Delivered ==
    /\ alive
    /\ pc["market"] = "deliver"
    /\ loop.idx > Len(MARKET_PUSH_CHAT_IDS)
    /\ pc' = [ pc EXCEPT !["market"] = "sleep_check" ]
    /\ loop' = AtSleep(loop, IF \E i \in 1..Len(loop.sent) : ~loop.sent[i].ok
                             THEN "send_failed" ELSE "pushed")
    /\ UNCHANGED << alive, stop_event, ADMIN_IDS, MARKET_PUSH_CHAT_IDS,
                    MARKET_PUSH_INTERVAL, timer, ended, crashes, handlers,
                    fmtVars, fetchVars >>

\* if stop_event.is_set(): break
SleepBreak_Never == FALSE
SleepBreak == stop_event

\* One iteration of the sleep loop: if stop_event.is_set(): break; time.sleep(1)
SleepCheck ==
    /\ alive
    /\ pc["market"] = "sleep_check"
    /\ IF loop.left = 0 \/ SleepBreak
       THEN /\ pc' = [ pc EXCEPT !["market"] = "loop_check" ]
            /\ loop' = [ loop EXCEPT !.last = "none" ]
            /\ UNCHANGED timer
       ELSE /\ pc' = [ pc EXCEPT !["market"] = "sleeping" ]
            /\ timer' = [ timer EXCEPT !["market"] = SleepStep ]
            /\ loop' = [ loop EXCEPT !.last = "none" ]
    /\ UNCHANGED << alive, stop_event, ADMIN_IDS, MARKET_PUSH_CHAT_IDS,
                    MARKET_PUSH_INTERVAL, ended, crashes, handlers, fmtVars,
                    fetchVars >>

\* time.sleep(1) is over.
SleepDone ==
    /\ alive
    /\ pc["market"] = "sleeping"
    /\ timer["market"] = 0
    /\ pc' = [ pc EXCEPT !["market"] = "sleep_check" ]
    /\ loop' = [ loop EXCEPT !.left = @ - 1 ]
    /\ UNCHANGED << alive, stop_event, ADMIN_IDS, MARKET_PUSH_CHAT_IDS,
                    MARKET_PUSH_INTERVAL, timer, ended, crashes, handlers,
                    fmtVars, fetchVars >>

\* ------------------------------------------------------------------ main

\* KeyboardInterrupt in main's while True loop; finally: stop_event.set(), and
\* time.sleep(1) begins.
Interrupt ==
    /\ alive
    /\ pc["main"] = "main_loop"
    /\ stop_event' = TRUE
    /\ pc' = [ pc EXCEPT !["main"] = "exit_sleep" ]
    /\ timer' = [ timer EXCEPT !["main"] = SleepStep ]
    /\ UNCHANGED << alive, ADMIN_IDS, MARKET_PUSH_CHAT_IDS, MARKET_PUSH_INTERVAL,
                    loop, ended, crashes, handlers, fmtVars,
                    fetchVars >>

\* os._exit(0): the process and all its daemon threads are gone.  Threads
\* that can still take a step at this instant take it first.
Exit ==
    /\ alive
    /\ pc["main"] = "exit_sleep"
    /\ timer["main"] = 0
    /\ \A t \in Threads \ {"main"} : ~Urgent(t)
    /\ \A w \in Workers : ~UrgentWorker(w)
    /\ alive' = FALSE
    /\ pc' = [ pc EXCEPT !["main"] = "exited" ]
    /\ UNCHANGED << stop_event, ADMIN_IDS, MARKET_PUSH_CHAT_IDS,
                    MARKET_PUSH_INTERVAL, timer, loop, ended, crashes, handlers,
                    fmtVars, fetchVars >>

\* --------------------------------------------------------- start_polling

\* while not stop_event.is_set(): bot.remove_webhook(); bot.infinity_polling(...)
PollCheck ==
    /\ alive
    /\ pc["polling"] = "poll_check"
    /\ pc' = [ pc EXCEPT !["polling"] = IF stop_event THEN "poll_ended" ELSE "polling" ]
    /\ UNCHANGED << alive, stop_event, ADMIN_IDS, MARKET_PUSH_CHAT_IDS,
                    MARKET_PUSH_INTERVAL, timer, loop, ended, crashes, handlers,
                    fmtVars, fetchVars >>

\* infinity_polling raises: ApiTelegramException (sleep 10) or another
\* Exception (sleep 5).
PollRaise ==
    /\ alive
    /\ pc["polling"] = "polling"
    /\ \E d \in {ApiErrorSleep, PollErrorSleep} :
          timer' = [ timer EXCEPT !["polling"] = d ]
    /\ pc' = [ pc EXCEPT !["polling"] = "poll_sleep" ]
    /\ UNCHANGED << alive, stop_event, ADMIN_IDS, MARKET_PUSH_CHAT_IDS,
                    MARKET_PUSH_INTERVAL, loop, ended, crashes, handlers,
                    fmtVars, fetchVars >>

\* The sleep of the except clause is over: back to the while test.
PollWake ==
    /\ alive
    /\ pc["polling"] = "poll_sleep"
    /\ timer["polling"] = 0
    /\ pc' = [ pc EXCEPT !["polling"] = "poll_check" ]
    /\ UNCHANGED << alive, stop_event, ADMIN_IDS, MARKET_PUSH_CHAT_IDS,
                    MARKET_PUSH_INTERVAL, timer, loop, ended, crashes, handlers,
                    fmtVars, fetchVars >>

\* -------------------------------------------------------- command handlers

\* The users that send commands, and the chats they send them in: a private
\* chat has its user's id, groups have negative ids.
Users == {1, 2}
Groups == { [ id |-> 0 - 1, type |-> "group" ], [ id |-> 0 - 2, type |-> "supergroup" ] }
ChatsOf(user) == Groups \cup { [ id |-> user, type |-> "private" ] }

\* chat.type in ["group","supergroup"]
IsGroup_Any(chat) == TRUE
IsGroup(chat) == chat.type \in {"group", "supergroup"}

Binding == { w \in Workers : handlers[w].cmd = "bindgroup" }

\* bot.reply_to(msg, text) followed by the handler's return: the worker is in
\* the call until it is answered.
Replying(text, id) == [ Idle EXCEPT !.cmd = "reply", !.text = text, !.arg = id ]

Reply(w) ==
    /\ alive
    /\ handlers[w].cmd = "reply"
    /\ handlers' = [ handlers EXCEPT ![w] = Idle ]
    /\ UNCHANGED << alive, stop_event, ADMIN_IDS, MARKET_PUSH_CHAT_IDS,
                    MARKET_PUSH_INTERVAL, pc, timer, loop, ended, crashes,
                    fmtVars, fetchVars >>

\* cmd_bindgroup up to its test `gid not in MARKET_PUSH_CHAT_IDS`; the append
\* is the worker's next step, and other threads run in between.
CmdBindgroup(w, user, chat) ==
    /\ alive
    /\ handlers[w] = Idle
    /\ Len(MARKET_PUSH_CHAT_IDS) + Cardinality(Binding) < MaxDests
    /\ handlers' = [ handlers EXCEPT ![w] =
          IF ~is_admin(user) THEN Replying("Not authorized.", 0)
          ELSE IF ~IsGroup(chat)
          THEN Replying("Please run this command inside the target group.", 0)
          ELSE IF ~InList(chat.id, MARKET_PUSH_CHAT_IDS)
          THEN [ Idle EXCEPT !.cmd = "bindgroup", !.gid = chat.id ]
          ELSE Idle ]
    /\ UNCHANGED << alive, stop_event, ADMIN_IDS, MARKET_PUSH_CHAT_IDS,
                    MARKET_PUSH_INTERVAL, pc, timer, loop, ended, crashes,
                    fmtVars, fetchVars >>

\* MARKET_PUSH_CHAT_IDS.append(gid), then the reply.
BindAppend(w) ==
    /\ alive
    /\ handlers[w].cmd = "bindgroup"
    /\ MARKET_PUSH_CHAT_IDS' = Append(MARKET_PUSH_CHAT_IDS, handlers[w].gid)
    /\ handlers' = [ handlers EXCEPT ![w] = Idle ]
    /\ UNCHANGED << alive, stop_event, ADMIN_IDS, MARKET_PUSH_INTERVAL, pc, timer,
                    loop, ended, crashes, fmtVars,
                    fetchVars >>

\* cmd_push up to its for statement: the admin test, then the fetch and the
\* formatting; an error there is answered "Failed to push snapshot." by the
\* outer except.  The handler holds nothing of the destination list yet.
CmdPush(w, user) ==
    /\ alive
    /\ handlers[w] = Idle
    /\ \E raised \in BOOLEAN :
          handlers' = [ handlers EXCEPT ![w] =
             IF ~is_admin(user) THEN Replying("Not authorized.", 0)
             ELSE IF ~raised THEN [ Idle EXCEPT !.cmd = "push_deliver", !.idx = 1 ]
             ELSE Idle ]
    /\ UNCHANGED << alive, stop_event, ADMIN_IDS, MARKET_PUSH_CHAT_IDS,
                    MARKET_PUSH_INTERVAL, pc, timer, loop, ended, crashes,
                    fmtVars, fetchVars >>

\* Whether cmd_push's except clause around bot.send_message catches the
\* error of one destination.
PushSendCaught == TRUE

\* cmd_push: for cid in MARKET_PUSH_CHAT_IDS: try: bot.send_message(cid, ...)
PushDeliver(w) ==
    /\ alive
    /\ handlers[w].cmd = "push_deliver"
    /\ handlers[w].idx <= Len(MARKET_PUSH_CHAT_IDS)
    /\ \E ok \in BOOLEAN :
          LET tried == [ handlers[w] EXCEPT !.sent =
                            Append(@, MARKET_PUSH_CHAT_IDS[handlers[w].idx]) ]
          IN  handlers' = [ handlers EXCEPT ![w] =
                              IF ok \/ PushSendCaught
                              THEN [ tried EXCEPT !.idx = @ + 1 ]
                              ELSE [ tried EXCEPT !.cmd = "push_failed" ] ]
    /\ UNCHANGED << alive, stop_event, ADMIN_IDS, MARKET_PUSH_CHAT_IDS,
                    MARKET_PUSH_INTERVAL, pc, timer, loop, ended, crashes,
                    fmtVars, fetchVars >>

\* cmd_push: the for statement is exhausted; bot.reply_to(msg, "Snapshot pushed.")
PushDone(w) ==
    /\ alive
    /\ handlers[w].cmd = "push_deliver"
    /\ handlers[w].idx > Len(MARKET_PUSH_CHAT_IDS)
    /\ handlers' = [ handlers EXCEPT ![w] = Idle ]
    /\ UNCHANGED << alive, stop_event, ADMIN_IDS, MARKET_PUSH_CHAT_IDS,
                    MARKET_PUSH_INTERVAL, pc, timer, loop, ended, crashes,
                    fmtVars, fetchVars >>

\* The id argument of /addadmin and /deladmin: a user's id, or None for a
\* text without a second part or with one that int() refuses.
Args == Users \cup {None}

Adding == { w \in Workers : handlers[w].cmd \in {"addadmin", "addadmin_append"} }

\* ADMIN_IDS.remove(rem): the list without the first occurrence of rem.
Remove(q, x) ==
    LET i == CHOOSE k \in 1..Len(q) : q[k] = x /\ \A j \in 1..(k - 1) : q[j] # x
    IN  SubSeq(q, 1, i - 1) \o SubSeq(q, i + 1, Len(q))

\* cmd_addadmin up to new = int(parts[1]).
CmdAddadmin(w, user, new) ==
    /\ alive
    /\ handlers[w] = Idle
    /\ Len(ADMIN_IDS) + Cardinality(Adding) < MaxAdmins
    /\ handlers' = [ handlers EXCEPT ![w] =
          IF ~is_admin(user) THEN Replying("Not authorized.", 0)
          ELSE IF new = None THEN Replying("Usage: /addadmin <id>", 0)
          ELSE [ Idle EXCEPT !.cmd = "addadmin", !.arg = new ] ]
    /\ UNCHANGED << alive, stop_event, ADMIN_IDS, MARKET_PUSH_CHAT_IDS,
                    MARKET_PUSH_INTERVAL, pc, timer, loop, ended, crashes,
                    fmtVars, fetchVars >>

\* cmd_addadmin: if new not in ADMIN_IDS
AddTest(w) ==
    /\ alive
    /\ handlers[w].cmd = "addadmin"
    /\ handlers' = [ handlers EXCEPT ![w] =
          IF ~InList(handlers[w].arg, ADMIN_IDS)
          THEN [ handlers[w] EXCEPT !.cmd = "addadmin_append" ]
          ELSE Replying("Already admin.", 0) ]
    /\ UNCHANGED << alive, stop_event, ADMIN_IDS, MARKET_PUSH_CHAT_IDS,
                    MARKET_PUSH_INTERVAL, pc, timer, loop, ended, crashes,
                    fmtVars, fetchVars >>

\* cmd_addadmin: ADMIN_IDS.append(new), then the reply.
AddAppend(w) ==
    /\ alive
    /\ handlers[w].cmd = "addadmin_append"
    /\ ADMIN_IDS' = Append(ADMIN_IDS, handlers[w].arg)
    /\ handlers' = [ handlers EXCEPT ![w] = Replying("Added admin", handlers[w].arg) ]
    /\ UNCHANGED << alive, stop_event, MARKET_PUSH_CHAT_IDS, MARKET_PUSH_INTERVAL,
                    pc, timer, loop, ended, crashes, fmtVars, fetchVars >>

\* cmd_deladmin up to rem = int(parts[1]).
CmdDeladmin(w, user, rem) ==
    /\ alive
    /\ handlers[w] = Idle
    /\ handlers' = [ handlers EXCEPT ![w] =
          IF ~is_admin(user) THEN Replying("Not authorized.", 0)
          ELSE IF rem = None THEN Replying("Usage: /deladmin <id>", 0)
          ELSE [ Idle EXCEPT !.cmd = "deladmin", !.arg = rem ] ]
    /\ UNCHANGED << alive, stop_event, ADMIN_IDS, MARKET_PUSH_CHAT_IDS,
                    MARKET_PUSH_INTERVAL, pc, timer, loop, ended, crashes,
                    fmtVars, fetchVars >>

\* cmd_deladmin: if rem in ADMIN_IDS
DelTest(w) ==
    /\ alive
    /\ handlers[w].cmd = "deladmin"
    /\ handlers' = [ handlers EXCEPT ![w] =
          IF InList(handlers[w].arg, ADMIN_IDS)
          THEN [ handlers[w] EXCEPT !.cmd = "deladmin_remove" ]
          ELSE Replying("Not found.", 0) ]
    /\ UNCHANGED << alive, stop_event, ADMIN_IDS, MARKET_PUSH_CHAT_IDS,
                    MARKET_PUSH_INTERVAL, pc, timer, loop, ended, crashes,
                    fmtVars, fetchVars >>

\* cmd_deladmin: ADMIN_IDS.remove(rem), then the reply; remove raises
\* ValueError if another handler took the id away since the test, and the
\* except clause answers with the usage text.
DelRemove(w) ==
    /\ alive
    /\ handlers[w].cmd = "deladmin_remove"
    /\ IF InList(handlers[w].arg, ADMIN_IDS)
       THEN /\ ADMIN_IDS' = Remove(ADMIN_IDS, handlers[w].arg)
            /\ handlers' = [ handlers EXCEPT ![w] =
                                Replying("Removed admin", handlers[w].arg) ]
       ELSE /\ UNCHANGED ADMIN_IDS
            /\ handlers' = [ handlers EXCEPT ![w] =
                                Replying("Usage: /deladmin <id>", 0) ]
    /\ UNCHANGED << alive, stop_event, MARKET_PUSH_CHAT_IDS, MARKET_PUSH_INTERVAL,
                    pc, timer, loop, ended, crashes, fmtVars, fetchVars >>

\* ------------------------------------------------------ market formatting

SYMBOLS == << "BTC-USDT", "ETH-USDT", "DOGE-USDT", "SOL-USDT",
              "BNB-USDT", "XRP-USDT", "TRX-USDT", "USDC-USDT" >>

Names == { SYMBOLS[i] : i \in 1..Len(SYMBOLS) }

\* Prices are counted in cents, percentages in hundredths of a percent and
\* volumes in units, so that the two-decimal renderings are exact.
Prices == { 50 * k : k \in 1..MaxPrice }

LastValues == { None } \cup Prices

\* The 24h changes and volumes a ticker can carry next to its price.
PctVols == << [ pct |-> None, vol |-> None ],
              [ pct |-> 0 - 5, vol |-> 999 ],
              [ pct |-> 1234, vol |-> 2500000 ],
              [ pct |-> 0, vol |-> 0 ],
              [ pct |-> 250, vol |-> 1234567890 ] >>

Index(s) == CHOOSE i \in 1..Len(SYMBOLS) : SYMBOLS[i] = s

\* The one a symbol's ticker carries when its price is known.
PctVolOf(s) == PctVols[((Index(s) - 1) % Len(PctVols)) + 1]

\* return {"last": None, "pct": None, "vol": None}
NoData == [ last |-> None, pct |-> None, vol |-> None ]

\* What fetch_okx_tickers(SYMBOLS) can return: a ticker for every symbol,
\* all its fields None where the fetch failed.
LastSets ==
    LET varied == { s \in Names : Index(s) <= MaxVaried }
    IN  { [ s \in Names |-> IF s \in varied THEN a[s] ELSE b[s] ] :
            a \in [ varied -> LastValues ],
            b \in [ Names \ varied -> { None, 50 } ] }

TickerSets ==
    { [ s \in Names |-> IF l[s] = None THEN NoData
                        ELSE [ last |-> l[s], pct |-> PctVolOf(s).pct,
                                              vol |-> PctVolOf(s).vol ] ] :
        l \in LastSets }

\* Python's round(): to the nearest integer, ties to the even one (n >= 0).
RoundHalfEven(n, d) ==
    LET q == n \div d
        r == n % d
    IN  IF 2 * r < d THEN q
        ELSE IF 2 * r > d THEN q + 1
        ELSE IF q % 2 = 0 THEN q ELSE q + 1

TwoDigits(n) == IF n < 10 THEN "0" \o ToString(n) ELSE ToString(n)

\* f"{v:.2f}" of a non-negative amount of c hundredths (below the first
\* thousands separator).
Fixed2(c) == ToString(c \div 100) \o "." \o TwoDigits(c % 100)

RECURSIVE ljust(_, _)
ljust(s, width) == IF Len(s) >= width THEN s ELSE ljust(s \o " ", width)

RECURSIVE SplitHead(_, _, _)
SplitHead(s, sep, i) ==
    IF i > Len(s) THEN s
    ELSE IF SubSeq(s, i, i) = sep THEN SubSeq(s, 1, i - 1)
    ELSE SplitHead(s, sep, i + 1)

format_price(v) ==
    IF v = None THEN "N/A"
    ELSE IF v >= 100 THEN "$" \o Fixed2(v)
    ELSE IF v = 0 THEN "$0"
    ELSE IF v % 10 = 0 THEN "$0." \o ToString(v \div 10)
    ELSE "$0." \o TwoDigits(v)

\* The glyphs of the ramp, lowest first, by name.
BLOCKS == << "lower1", "lower2", "lower3", "lower4",
             "lower5", "lower6", "lower7", "full" >>

Repeat(x, n) == [ i \in 1..n |-> x ]

\* How a call ended: with a value, or with an exception raised.
NoError == "none"

Returned(v) == [ raised |-> NoError, value |-> v ]

Raised(e) == [ raised |-> e, value |-> << >> ]

Known(values_dict) == { k \in DOMAIN values_dict : values_dict[k] # None }

SetMin(S) == CHOOSE x \in S : \A y \in S : x <= y

SetMax(S) == CHOOSE x \in S : \A y \in S : x >= y

UnitRange(mn, mx) == IF mx # mn THEN mx - mn ELSE 1

\* The bar of one known value: 8 glyphs, the second four one level lower.
Bar_Unscaled(v, mn, rng) == Repeat(BLOCKS[1], 8)
Bar(v, mn, rng) ==
    LET idx == RoundHalfEven((v - mn) * (Len(BLOCKS) - 1), rng)
    IN  [ j \in 1..8 |->
            BLOCKS[Max(0, Min(Len(BLOCKS) - 1, idx - ((j - 1) \div 4))) + 1] ]

ScaledBars(values_dict) ==
    LET vals == { values_dict[k] : k \in Known(values_dict) }
    IN  IF vals = {} THEN Raised("ValueError")
        ELSE LET mn == SetMin(vals)
                 mx == SetMax(vals)
                 rng == UnitRange(mn, mx)
             IN  IF rng = 0 THEN Raised("ZeroDivisionError")
                 ELSE Returned([ k \in DOMAIN values_dict |->
                        IF values_dict[k] = None THEN Repeat(BLOCKS[1], 8)
                        ELSE Bar(values_dict[k], mn, rng) ])

\* if not vals: every bar is the lowest one; otherwise the bars are scaled.
build_bars_Unguarded(values_dict) == ScaledBars(values_dict)
build_bars(values_dict) ==
    IF Known(values_dict) = {}
    THEN Returned([ k \in DOMAIN values_dict |-> Repeat(BLOCKS[1], 8) ])
    ELSE ScaledBars(values_dict)

fmt_vol(v) ==
    IF v = None \/ v = 0 THEN "--"
    ELSE IF v >= 1000000000 THEN Fixed2(RoundHalfEven(v, 10000000)) \o "B"
    ELSE IF v >= 1000000 THEN ToString(RoundHalfEven(v, 1000000)) \o "M"
    ELSE ToString(v)

pct_str(pct) ==
    IF pct = None THEN "N/A"
    ELSE IF pct >= 0 THEN "(up)+" \o Fixed2(pct) \o "%"
    ELSE "(down)-" \o Fixed2(0 - pct) \o "%"

\* datetime.strftime("%Y-%m-%d %H:%M:%S UTC") of a time in the first minute
\* of a day.
strftime(now) == "2024-01-01 00:00:" \o TwoDigits(now) \o " UTC"

SnapshotLine(s, data, bar) ==
    [ name  |-> ljust(SplitHead(s, "-", 1), 5) \o "  ",
      bar   |-> bar,
      price |-> IF data.last # None THEN ljust("$" \o Fixed2(data.last), 11)
                ELSE ljust("N/A", 11),
      pct   |-> pct_str(data.pct),
      vol   |-> "Vol " \o fmt_vol(data.vol) ]

format_market_snapshot_with_pct(tk, now) ==
    LET values == [ s \in Names |-> tk[s].last ]
        bars == build_bars(values)
    IN  IF bars.raised # NoError THEN bars
        ELSE Returned([ header |-> "Market Snapshot (OKX)",
                        lines  |-> [ i \in 1..Len(SYMBOLS) |->
                                       SnapshotLine(SYMBOLS[i], tk[SYMBOLS[i]],
                                                    bars.value[SYMBOLS[i]]) ],
                        ts     |-> strftime(now) ])

\* The reply of /market to a fetched set of tickers.
MarketReply(tk) ==
    << "Real-time Market Data" >> \o
    [ i \in 1..Len(SYMBOLS) |->
        SYMBOLS[i] \o ": " \o
        ( IF tk[SYMBOLS[i]].last # None THEN format_price(tk[SYMBOLS[i]].last)
          ELSE "N/A" ) ]

\* The seconds of the wall clock that a call can fall in.
Clock == { 0, 1 }

\* Before any fetch and any call.
NoTickers == << >>

NoOutput == [ call |-> "none" ] @@ Returned(<< >>)

\* One call of format_market_snapshot_with_pct on the fetched tickers.
FormatSnapshot ==
    /\ tickers # NoTickers
    /\ \E now \in Clock :
          out' = [ call |-> "snapshot" ] @@
                 format_market_snapshot_with_pct(tickers, now)
    /\ UNCHANGED << alive, stop_event, ADMIN_IDS, MARKET_PUSH_CHAT_IDS,
                    MARKET_PUSH_INTERVAL, pc, timer, loop, ended, crashes,
                    handlers, tickers, fetchVars >>

\* One /market command on the fetched tickers.
cmd_market ==
    /\ tickers # NoTickers
    /\ out' = [ call |-> "market" ] @@ Returned(MarketReply(tickers))
    /\ UNCHANGED << alive, stop_event, ADMIN_IDS, MARKET_PUSH_CHAT_IDS,
                    MARKET_PUSH_INTERVAL, pc, timer, loop, ended, crashes,
                    handlers, tickers, fetchVars >>

\* ------------------------------------------------------- fetch_okx_ticker

\* The other variables of the threads.
threadVars == << alive, stop_event, ADMIN_IDS, MARKET_PUSH_CHAT_IDS,
                 MARKET_PUSH_INTERVAL, pc, timer, loop, ended, crashes,
                 handlers >>

\* A value of the response's data object under one key: the key is absent
\* (d.get gives None), or holds an empty string, a string that is no number,
\* a string that is one, or a JSON number.  Numbers are counted in
\* hundredths.
Missing == [ kind |-> "missing", v |-> 0 ]
EmptyStr == [ kind |-> "empty", v |-> 0 ]
Junk_Str == [ kind |-> "junk", v |-> 0 ]
NumStr(n) == [ kind |-> "str", v |-> n ]
JsonNum(n) == [ kind |-> "num", v |-> n ]

\* Python's truth value of it.
Truthy(raw) == raw.kind \in {"junk", "str"} \/ (raw.kind = "num" /\ raw.v # 0)

\* a or b
Or(a, b) == IF Truthy(a) THEN a ELSE b

\* float(x): a TypeError for None, a ValueError for a string that is no
\* number.
float(raw) ==
    CASE raw.kind \in {"str", "num"} -> Returned(raw.v)
      [] raw.kind = "missing" -> Raised("TypeError")
      [] OTHER -> Raised("ValueError")

\* Where an error in the parsing of one field goes: to the except clause
\* around that field, which leaves the field None.
FieldExcept_Outer == "outer"
FieldExcept == "field"

\* try: x = float(...) except: pass
TryFloat(raw) ==
    LET f == float(raw)
    IN  IF f.raised = NoError THEN f
        ELSE IF FieldExcept = "field" THEN Returned(None)
        ELSE f

\* Whether the percentage is still to be derived from the 24h open.
NeedsFallback_Falsy(pct) == pct = None \/ pct = 0
NeedsFallback(pct) == pct = None

\* The data objects tried: d = j["data"][0].
DataSets ==
    [ last : { Missing, Junk_Str, NumStr(50), NumStr(150), JsonNum(0) },
      lastPrice : { Missing, NumStr(100) },
      open24h : { Missing, Junk_Str, NumStr(0), NumStr(50), NumStr(100) },
      open_24h : { Missing, NumStr(50) },
      open : { Missing },
      change24h : { Missing, Junk_Str, NumStr(0 - 5), NumStr(0), NumStr(12) },
      volCcy24h : { Missing, EmptyStr, NumStr(99900) },
      vol24h : { Missing, NumStr(500) } ]

\* What the request can come to: the transport raises (connection error,
\* timeout), the body is no JSON, the JSON has another code than 0 or an
\* empty data list, or it has code 0 and a data object.
Responses ==
    { [ how |-> h, d |-> << >> ] :
        h \in { "transport_error", "not_json", "bad_code", "empty_data" } }
    \cup { [ how |-> "data", d |-> d ] : d \in DataSets }

NoResponse == [ how |-> "none", d |-> << >> ]

\* No call of fetch_okx_tickers under way.
NoReaders == << >>

\* The exchange at its first version, answering for every symbol.
FeedUp == [ ver |-> 1, down |-> {} ]

\* The body of fetch_okx_ticker's `if`, on the data object d.
ParseData(d) ==
    LET last == TryFloat(Or(d.last, d.lastPrice))
        open24 == TryFloat(Or(Or(d.open24h, d.open_24h), d.open))
        official == IF d.change24h.kind = "missing" THEN Returned(None)
                   ELSE LET f == float(d.change24h)
                        IN  IF f.raised = NoError THEN Returned(f.value * 100)
                            ELSE Returned(None)
        vol == TryFloat(Or(d.volCcy24h, d.vol24h))
        failed == { x \in { last, open24, vol } : x.raised # NoError }
    IN  IF failed # {} THEN CHOOSE x \in failed : TRUE
        ELSE Returned(
               [ last |-> last.value,
                 pct  |-> IF /\ NeedsFallback(official.value)
                             /\ last.value # None
                             /\ open24.value # None /\ open24.value # 0
                          THEN ((last.value - open24.value) * 100 * 100)
                                  \div open24.value
                          ELSE official.value,
                 vol  |-> vol.value ])

\* fetch_okx_ticker on one response: every exception of its body ends in
\* the outer except clause, and the ticker without data is returned.
fetch_okx_ticker(r) ==
    IF r.how # "data" THEN Returned(NoData)
    ELSE LET parsed == ParseData(r.d)
         IN  IF parsed.raised = NoError THEN parsed ELSE Returned(NoData)

NoTicker == [ call |-> "none" ] @@ Returned(NoData)

\* One call of fetch_okx_ticker.
FetchTicker ==
    /\ resp # NoResponse
    /\ ticker' = [ call |-> "fetch" ] @@ fetch_okx_ticker(resp)
    /\ UNCHANGED << threadVars, fmtVars, resp, feed, readers, frames >>

\* ------------------------------------------------------ fetch_okx_tickers

\* The threads that call fetch_okx_tickers: the scheduled cycle, and a
\* worker thread running /push or /market.
Readers == { "market", "worker" }

\* A call of fetch_okx_tickers(SYMBOLS) at its start: `out = {}`, the for
\* statement at its first symbol.
NewCall == [ i |-> 1, phase |-> "request", out |-> << >> ]

\* The locals of a call of fetch_okx_ticker: the data object d and last.
\* A field parsed from a response is written as the version of the
\* exchange's data that the response carried.
NoLocals == [ d |-> 0, last |-> None ]

\* Whose locals a call of fetch_okx_ticker works on: its own.
Frame_Shared(r) == "market"
Frame(r) == r

Calling(r) == r \in DOMAIN readers /\ readers[r].i <= Len(SYMBOLS)

\* out[s] = fetch_okx_ticker(s), for a fetch that failed.
StoreFailed_Absent(o, s) == o
StoreFailed(o, s) == (s :> NoData) @@ o

\* requests_session.get(...) and r.json(): the request of the next symbol is
\* answered with the data of the moment, or it fails (transport error,
\* timeout, code other than 0, no data) and the ticker without data is that
\* symbol's entry.
Request(r) ==
    /\ Calling(r)
    /\ readers[r].phase = "request"
    /\ LET s == SYMBOLS[readers[r].i]
       IN  IF s \in feed.down
           THEN /\ readers' = [ readers EXCEPT
                                  ![r].out = StoreFailed(@, s),
                                  ![r].i = @ + 1 ]
                /\ UNCHANGED frames
           ELSE /\ readers' = [ readers EXCEPT ![r].phase = "got" ]
                /\ frames' = [ frames EXCEPT ![Frame(r)] =
                                 [ d |-> feed.ver, last |-> None ] ]
    /\ UNCHANGED << threadVars, fmtVars, resp, ticker, feed >>

\* last = float(d.get("last") or d.get("lastPrice"))
ParseLast(r) ==
    /\ Calling(r)
    /\ readers[r].phase = "got"
    /\ readers' = [ readers EXCEPT ![r].phase = "parsed_last" ]
    /\ frames' = [ frames EXCEPT ![Frame(r)].last = frames[Frame(r)].d ]
    /\ UNCHANGED << threadVars, fmtVars, resp, ticker, feed >>

\* The rest of fetch_okx_ticker: pct and vol are parsed from d, the ticker
\* is returned and fetch_okx_tickers stores it under the symbol.
ParseRest(r) ==
    /\ Calling(r)
    /\ readers[r].phase = "parsed_last"
    /\ LET s == SYMBOLS[readers[r].i]
           f == frames[Frame(r)]
       IN  readers' = [ readers EXCEPT
                          ![r].out = (s :> [ last |-> f.last, pct |-> f.d,
                                             vol |-> f.d ]) @@ @,
                          ![r].i = @ + 1,
                          ![r].phase = "request" ]
    /\ UNCHANGED << threadVars, fmtVars, resp, ticker, feed, frames >>

\* return out
ReturnTickers(r) ==
    /\ r \in DOMAIN readers
    /\ readers[r].i > Len(SYMBOLS)
    /\ readers[r].phase = "request"
    /\ readers' = [ readers EXCEPT ![r].phase = "returned" ]
    /\ UNCHANGED << threadVars, fmtVars, resp, ticker, feed, frames >>

\* The exchange's data change.
FeedUpdate ==
    /\ feed.ver < MaxFeed
    /\ feed' = [ feed EXCEPT !.ver = @ + 1 ]
    /\ UNCHANGED << threadVars, fmtVars, resp, ticker, readers, frames >>

\* ------------------------------------------------------- specifications

\* The module body's configuration, for every environment tried.
Configured ==
    \E adminRaw \in EnvLists, single \in {0, 1}, pushRaw \in EnvLists :
       /\ ADMIN_IDS = ParseAdminIds(adminRaw, single)
       /\ MARKET_PUSH_CHAT_IDS = ParsePushChatIds(pushRaw, ADMIN_IDS)
       /\ MARKET_PUSH_INTERVAL \in Intervals

Started(threads) ==
    /\ alive = TRUE
    /\ stop_event = FALSE
    /\ pc = [ t \in Threads |->
                IF t \notin threads THEN "off"
                ELSE CASE t \in Sups -> "sup_check"
                       [] t = "polling" -> "poll_check"
                       [] OTHER -> "main_loop" ]
    /\ timer = [ t \in Threads |-> 0 ]
    /\ loop = NoLoop
    /\ ended = [ s \in Sups |-> NotEnded ]
    /\ crashes = [ s \in Sups |-> 0 ]
    /\ handlers = [ w \in Workers |-> Idle ]
    /\ tickers = NoTickers
    /\ out = NoOutput
    /\ resp = NoResponse
    /\ ticker = NoTicker
    /\ feed = FeedUp
    /\ readers = NoReaders
    /\ frames = NoReaders

\* The broadcast side: the supervised market_push_loop, the command
\* handlers and main.
Init == Configured /\ Started({"market", "main"})

Next ==
    \/ Tick
    \/ SupCheck("market")
    \/ LoopCheck \/ FetchFormat \/ Deliver \/ Delivered \/ SleepCheck \/ SleepDone
    \/ \E w \in Workers, user \in Users :
          \/ \E chat \in ChatsOf(user) : CmdBindgroup(w, user, chat)
          \/ CmdPush(w, user)
    \/ \E w \in Workers : BindAppend(w) \/ PushDeliver(w) \/ PushDone(w) \/ Reply(w)
    \/ Interrupt \/ Exit

Spec == Init /\ [][Next]_vars

\* The administration side: the four admin commands on the worker threads
\* of the running process; the destinations are the default (the first
\* admin's private chat, if any).  The handlers touch nothing of the other
\* threads, which are left out here.
AdminInit ==
    /\ Configured
    /\ MARKET_PUSH_CHAT_IDS = ParsePushChatIds(<< >>, ADMIN_IDS)
    /\ MARKET_PUSH_INTERVAL = 0
    /\ Started({})

AdminNext ==
    \/ \E w \in Workers, user \in Users :
          \/ \E chat \in ChatsOf(user) : CmdBindgroup(w, user, chat)
          \/ CmdPush(w, user)
          \/ \E id \in Args : CmdAddadmin(w, user, id) \/ CmdDeladmin(w, user, id)
    \/ \E w \in Workers :
          \/ BindAppend(w) \/ PushDeliver(w) \/ PushDone(w) \/ Reply(w)
          \/ AddTest(w) \/ AddAppend(w) \/ DelTest(w) \/ DelRemove(w)

AdminSpec == AdminInit /\ [][AdminNext]_vars

\* The supervision side: both supervised tasks, the polling thread and
\* main, with the default destination (the first admin's private chat).
SupInit ==
    /\ Configured
    /\ ADMIN_IDS = << 1 >>
    /\ MARKET_PUSH_CHAT_IDS = << 1 >>
    /\ Started(Threads)

SupNext ==
    \/ Tick
    \/ \E s \in Sups : SupCheck(s) \/ SupCatch(s) \/ SupWake(s)
    \/ HbRaise \/ HbSleep \/ HbReturn
    \/ LoopCheck \/ FetchFormat \/ Deliver \/ Delivered \/ SleepCheck \/ SleepDone
    \/ PollCheck \/ PollRaise \/ PollWake
    \/ Interrupt \/ Exit

SupSpec == SupInit /\ [][SupNext]_vars

\* The same, with the scheduling the threads get: a thread that can take a
\* step takes it, time passes, and network calls of the market loop end
\* (the long poll may block for ever, and nobody has to interrupt main).
FairSupSpec ==
    /\ SupSpec
    /\ WF_vars(Tick)
    /\ \A s \in Sups : WF_vars(SupCheck(s) \/ SupCatch(s) \/ SupWake(s))
    /\ WF_vars(HbRaise \/ HbSleep)
    /\ WF_vars(HbReturn)
    /\ WF_vars(LoopCheck \/ FetchFormat \/ Deliver \/ Delivered \/ SleepCheck \/ SleepDone)
    /\ WF_vars(PollCheck \/ PollWake)
    /\ WF_vars(Exit)

\* The formatting side: the snapshot formatter and the /market reply on
\* every set of tickers tried, no thread running.
FmtInit ==
    /\ alive = TRUE
    /\ stop_event = FALSE
    /\ ADMIN_IDS = << >>
    /\ MARKET_PUSH_CHAT_IDS = << >>
    /\ MARKET_PUSH_INTERVAL = MaxInterval
    /\ pc = [ t \in Threads |-> "off" ]
    /\ timer = [ t \in Threads |-> 0 ]
    /\ loop = NoLoop
    /\ ended = [ s \in Sups |-> NotEnded ]
    /\ crashes = [ s \in Sups |-> 0 ]
    /\ handlers = [ w \in Workers |-> Idle ]
    /\ tickers \in TickerSets
    /\ out = NoOutput
    /\ resp = NoResponse
    /\ ticker = NoTicker
    /\ feed = FeedUp
    /\ readers = NoReaders
    /\ frames = NoReaders

FmtNext == FormatSnapshot \/ cmd_market

FmtSpec == FmtInit /\ [][FmtNext]_vars

\* No thread running, nothing fetched or formatted.
AllOff ==
    /\ alive = TRUE
    /\ stop_event = FALSE
    /\ ADMIN_IDS = << >>
    /\ MARKET_PUSH_CHAT_IDS = << >>
    /\ MARKET_PUSH_INTERVAL = MaxInterval
    /\ pc = [ t \in Threads |-> "off" ]
    /\ timer = [ t \in Threads |-> 0 ]
    /\ loop = NoLoop
    /\ ended = [ s \in Sups |-> NotEnded ]
    /\ crashes = [ s \in Sups |-> 0 ]
    /\ handlers = [ w \in Workers |-> Idle ]

\* The parsing side: fetch_okx_ticker on every response tried.
ParseInit ==
    /\ AllOff
    /\ tickers = NoTickers
    /\ out = NoOutput
    /\ resp \in Responses
    /\ ticker = NoTicker
    /\ feed = FeedUp
    /\ readers = NoReaders
    /\ frames = NoReaders

ParseNext == FetchTicker

ParseSpec == ParseInit /\ [][ParseNext]_vars

\* The fetching side: one call of fetch_okx_tickers with the requests of
\* any set of symbols failing, and two calls at once on different threads.
FetchInit ==
    /\ AllOff
    /\ tickers = NoTickers
    /\ out = NoOutput
    /\ resp = NoResponse
    /\ ticker = NoTicker
    /\ \E active \in { { "market" }, Readers } :
          /\ readers = [ r \in active |-> NewCall ]
          /\ frames = [ r \in active |-> NoLocals ]
          /\ feed \in [ ver : { 1 },
                        down : IF active = Readers
                               THEN { {}, { SYMBOLS[2] } }
                               ELSE SUBSET Names ]

FetchNext ==
    \/ \E r \in Readers :
          Request(r) \/ ParseLast(r) \/ ParseRest(r) \/ ReturnTickers(r)
    \/ FeedUpdate

FetchSpec == FetchInit /\ [][FetchNext]_vars

\* ------------------------------------------------------------------ claims

IsPrefix(a, b) == Len(a) <= Len(b) /\ \A i \in 1..Len(a) : a[i] = b[i]

\* What belongs to each supervised task.
MarketState == << pc["market"], timer["market"], loop, ended["market"], crashes["market"] >>
HeartbeatState == << pc["heartbeat"], timer["heartbeat"], ended["heartbeat"],
                     crashes["heartbeat"] >>

\* C1: in every broadcast cycle, scheduled or forced by /push, whichever
\* sends raise, the delivery loop is left only when a send has been attempted
\* to every destination of the list, in the list's order; the scheduled loop
\* then goes into its sleep of at least one step, leaves the sleep only for
\* its while test, and with the flag unset starts the next cycle's fetch.
C1_EveryDestinationAttempted ==
    [][ /\ (pc["market"] = "deliver" /\ pc'["market"] # "deliver")
              => /\ Cids(loop.sent) = MARKET_PUSH_CHAT_IDS
                 /\ pc'["market"] = "sleep_check"
                 /\ loop'.left >= 1
        /\ \A w \in Workers :
              (handlers[w].cmd = "push_deliver" /\ handlers'[w].cmd # "push_deliver")
                 => handlers[w].sent = MARKET_PUSH_CHAT_IDS
        /\ pc["market"] \in {"sleep_check", "sleeping"}
              => pc'["market"] \in {"sleep_check", "sleeping", "loop_check"}
        /\ (pc["market"] = "loop_check" /\ pc'["market"] # "loop_check" /\ ~stop_event)
              => pc'["market"] = "fetch"
      ]_vars

\* C1 witness: a scheduled cycle over three destinations in which the first
\* send raised and the other two were still made.
C1_OneFailedOthersSent ==
    /\ pc["market"] = "deliver"
    /\ Len(loop.sent) = 3
    /\ loop.idx > Len(MARKET_PUSH_CHAT_IDS)
    /\ ~loop.sent[1].ok /\ loop.sent[2].ok /\ loop.sent[3].ok

\* C2 as claimed: whenever a supervisor starts its task again, after a
\* return as after an error, the fixed delay has elapsed since the task
\* ended.
FixedDelay == 5
C3_RestartsForever ==
    /\ [](\A s \in Sups : pc[s] = "sup_exited" => stop_event)
    /\ ([]<>(pc["heartbeat"] = "hb_call") \/ <>stop_event)

\* C3 witness: the task has raised at once on five runs in a row, the
\* supervisor has restarted it each time, and the flag is unset.
C3_FiveCrashRestarts ==
    crashes["heartbeat"] >= 5 /\ pc["heartbeat"] = "hb_call" /\ ~stop_event

\* C4 as claimed: every long-running loop sees the flag and leaves before
\* the process is ended one second after the flag was set.
C4_LoopsExitOnStop ==
    ~alive => \A t \in Threads \ {"main"} : pc[t] \in {"sup_exited", "poll_ended"}

\* C5: market_push_loop returns only when the shutdown flag is set; an error
\* of its cycle body never reaches the supervisor, and the loop is then at
\* the start of its full sleep.
C5_LoopEndsOnlyOnStop ==
    /\ pc["market"] \notin {"raised", "crash_sleep"}
    /\ ended["market"].how # "raised"
    /\ ended["market"].how = "returned" => stop_event
    /\ pc["market"] = "sup_exited" => stop_event
    /\ loop.last = "raised" => pc["market"] = "sleep_check" /\ loop.left = SleepSteps

\* C5 witness: the cycle body has just raised and the loop is about to sleep.
C5_CycleErrorCaught ==
    loop.last = "raised" /\ pc["market"] = "sleep_check" /\ ~stop_event

\* C6 as claimed: a scheduled cycle sends only to destinations of the list
\* as it was when the cycle started.
C6_CycleSendsToStartList ==
    pc["market"] = "deliver" => IsPrefix(Cids(loop.sent), loop.start)

\* C7 as claimed: the destination list holds no id twice.
C7_NoDuplicateDestinations ==
    \A i, j \in 1..Len(MARKET_PUSH_CHAT_IDS) :
       i # j => MARKET_PUSH_CHAT_IDS[i] # MARKET_PUSH_CHAT_IDS[j]

\* C8: no step of one supervised task changes anything of the other; the
\* market loop's supervisor is never in a crash delay and leaves only when
\* the shutdown flag is set, however often the heartbeat task fails.
C8_TasksIsolated ==
    /\ [][ /\ ( \/ SupCheck("heartbeat") \/ SupCatch("heartbeat")
                \/ SupWake("heartbeat") \/ HbRaise \/ HbSleep \/ HbReturn )
                 => UNCHANGED MarketState
           /\ ( \/ SupCheck("market") \/ SupCatch("market") \/ SupWake("market")
                \/ LoopCheck \/ FetchFormat \/ Deliver \/ Delivered
                \/ SleepCheck \/ SleepDone )
                 => UNCHANGED HeartbeatState ]_vars
    /\ [](pc["market"] # "crash_sleep")
    /\ [](pc["market"] = "sup_exited" => stop_event)

\* C8 witness: the heartbeat task has crashed and been restarted twice in a
\* row while the market loop is delivering a cycle.
C8_MarketRunsWhileHeartbeatFails ==
    /\ crashes["heartbeat"] >= 2
    /\ pc["heartbeat"] = "crash_sleep"
    /\ pc["market"] = "deliver"
    /\ loop.sent # <<>>

Unknown ==
    { i \in 1..Len(SYMBOLS) : tickers[SYMBOLS[i]].last = None }

Snapshotted == out.call = "snapshot"

Replied == out.call = "market"

KnownPrices == { tickers[s].last : s \in Names } \ { None }

\* C10 as claimed: when all known last prices are equal, build_bars raises no
\* division error, every known symbol gets 8 glyphs of the top level of the ramp and
\* every unknown one the lowest-level bar.
C10_EqualPricesTopLevelBars ==
    (Snapshotted /\ Cardinality(KnownPrices) = 1) =>
       /\ out.raised = NoError
       /\ \A i \in 1..Len(SYMBOLS) :
             out.value.lines[i].bar =
                IF i \in Unknown THEN Repeat(BLOCKS[1], 8)
                ELSE Repeat(BLOCKS[Len(BLOCKS)], 8)

Glyphs == { BLOCKS[l] : l \in 1..Len(BLOCKS) }

\* The level of a glyph in the ramp, 1 the lowest.
Level(g) == CHOOSE i \in 1..Len(BLOCKS) : BLOCKS[i] = g

BarOf(i) == out.value.lines[i].bar

LastOf(i) == tickers[SYMBOLS[i]].last

\* C11: in every snapshot each symbol's bar has exactly 8 glyphs of the
\* ramp; an unknown price gives 8 glyphs of the lowest level; of two known
\* prices the lower one's bar is at no position of a higher level than the
\* other's; and when the known prices differ, the bar of the lowest price is
\* lower than the bar of the highest at every position.
C11_BarsOrderedByPrice ==
    Snapshotted =>
       /\ out.raised = NoError
       /\ LET n == Len(SYMBOLS)
              last == [ i \in 1..n |-> tickers[SYMBOLS[i]].last ]
              bar == [ i \in 1..n |-> out.value.lines[i].bar ]
              lowest == Repeat(BLOCKS[1], 8)
          IN  /\ \A i \in 1..n :
                    /\ DOMAIN bar[i] = 1..8
                    /\ \A j \in 1..8 : bar[i][j] \in Glyphs
                    /\ last[i] = None => bar[i] = lowest
              /\ \A a, b \in 1..n :
                    (last[a] # None /\ last[a] < last[b]) =>
                       /\ \A j \in 1..8 : Level(bar[a][j]) <= Level(bar[b][j])
                       /\ (\A c \in 1..n : last[c] = None \/
                               (last[a] <= last[c] /\ last[c] <= last[b]))
                            => \A j \in 1..8 : Level(bar[a][j]) < Level(bar[b][j])

\* C11 witness: a snapshot of a lower price, a higher price and an unknown
\* one, the first with a lower bar than the second, the third with the
\* lowest bar.
C11_LowHighUnknown ==
    /\ Snapshotted
    /\ out.raised = NoError
    /\ LastOf(1) # None /\ LastOf(2) # None /\ LastOf(1) < LastOf(2)
    /\ LastOf(3) = None
    /\ \A j \in 1..8 : Level(BarOf(1)[j]) < Level(BarOf(2)[j])
    /\ BarOf(3) = Repeat(BLOCKS[1], 8)

\* C12 as claimed: two calls of the formatter on the same tickers return the
\* same text, whenever they are made, with one line per symbol in the order
\* of SYMBOLS.
C12_SameTickersSameText ==
    [][ (out.call = "snapshot" /\ out'.call = "snapshot" /\ tickers' = tickers)
           => /\ out'.value = out.value
              /\ \A i \in 1..Len(SYMBOLS) :
                    out'.value.lines[i].name =
                       ljust(SplitHead(SYMBOLS[i], "-", 1), 5) \o "  " ]_vars

Fetched == ticker.call = "fetch"

\* A value of the data object that float() takes.
IsNumber(raw) == raw.kind \in {"str", "num"}

LastRaw == Or(resp.d.last, resp.d.lastPrice)

OpenRaw == Or(Or(resp.d.open24h, resp.d.open_24h), resp.d.open)

VolRaw == Or(resp.d.volCcy24h, resp.d.vol24h)

\* C13: fetch_okx_ticker never raises, and of a data object each of last
\* and volume is the number under its key, or None when that is missing or
\* no number, whatever the other fields hold; a change24h that is a number
\* gives a percentage of 100 times it.
C13_FieldsParsedIndependently ==
    Fetched =>
       /\ ticker.raised = NoError
       /\ resp.how = "data" =>
             /\ ticker.value.last = IF IsNumber(LastRaw) THEN LastRaw.v ELSE None
             /\ ticker.value.vol = IF IsNumber(VolRaw) THEN VolRaw.v ELSE None
             /\ IsNumber(resp.d.change24h)
                   => ticker.value.pct = resp.d.change24h.v * 100

\* C13 witness: a data object whose change24h is no number and whose volume
\* is an empty string, with a valid last price: the price is kept, the other
\* two are None.
C13_LastKeptOthersLost ==
    /\ Fetched
    /\ resp.how = "data"
    /\ resp.d.last = NumStr(50)
    /\ resp.d.change24h = Junk_Str
    /\ resp.d.volCcy24h = EmptyStr /\ resp.d.vol24h = Missing
    /\ ~IsNumber(OpenRaw)
    /\ ticker.value = [ last |-> 50, pct |-> None, vol |-> None ]

\* C17: the percentage of a fetched ticker is 100 times change24h when that
\* is a number; otherwise, when the last price is known and the 24h open is
\* known and not zero, (last - open) / open * 100; otherwise None; and no
\* error is raised.
C17_PctByPrecedence ==
    (Fetched /\ resp.how = "data") =>
       /\ ticker.raised = NoError
       /\ ticker.value.pct =
             IF IsNumber(resp.d.change24h) THEN resp.d.change24h.v * 100
             ELSE IF /\ ticker.value.last # None
                     /\ IsNumber(OpenRaw) /\ OpenRaw.v # 0
                  THEN ((ticker.value.last - OpenRaw.v) * 10000) \div OpenRaw.v
                  ELSE None

\* C17 witness: change24h is the number 0 while last and the 24h open would
\* give 200 %: the percentage is 0.
C17_OfficialZeroKept ==
    /\ Fetched
    /\ resp.how = "data"
    /\ resp.d.change24h = NumStr(0)
    /\ resp.d.last = NumStr(150) /\ resp.d.open24h = NumStr(50)
    /\ ticker.value.pct = 0

\* C14: the mapping a call of fetch_okx_tickers builds holds an entry for
\* each symbol fetched so far and for nothing else, and when it is returned
\* for every symbol of SYMBOLS; the entry of a symbol whose request failed
\* has all fields None, the others have their data; and an entry once
\* stored is not changed by the fetches that follow.
C14_EntryForEverySymbol ==
    /\ [](\A r \in DOMAIN readers :
            LET c == readers[r]
            IN  /\ DOMAIN c.out = { SYMBOLS[k] : k \in 1..(c.i - 1) }
                /\ c.phase = "returned" => DOMAIN c.out = Names
                /\ \A s \in DOMAIN c.out :
                      IF s \in feed.down THEN c.out[s] = NoData
                      ELSE c.out[s].last # None)
    /\ [][ \A r \in DOMAIN readers : \A s \in DOMAIN readers[r].out :
              readers'[r].out[s] = readers[r].out[s] ]_vars

\* C14 witness: a returned mapping in which every second symbol's request
\* failed.
C14_HalfFailed ==
    /\ DOMAIN readers = { "market" }
    /\ readers["market"].phase = "returned"
    /\ feed.down = { SYMBOLS[k] : k \in { 2, 4, 6, 8 } }
    /\ \A k \in 1..Len(SYMBOLS) :
          (readers["market"].out[SYMBOLS[k]] = NoData) <=> (k % 2 = 0)

\* C15: in every entry of every mapping, last, percent-change and volume
\* come from one and the same response.
C15_NoTornEntry ==
    \A r \in DOMAIN readers : \A s \in DOMAIN readers[r].out :
       LET e == readers[r].out[s]
       IN  e.last = e.pct /\ e.pct = e.vol

\* C15 witness: two calls ran at once while the data changed; one returned
\* a mapping whose first entry is of the first version and whose last entry
\* is of the second, the other is still fetching.
C15_MixedVersionsAcrossSymbols ==
    /\ DOMAIN readers = Readers
    /\ readers["market"].phase = "returned"
    /\ readers["market"].out[SYMBOLS[1]].last = 1
    /\ readers["market"].out[SYMBOLS[Len(SYMBOLS)]].last = 2
    /\ readers["worker"].phase = "parsed_last"

\* C16: the sleep of market_push_loop is made of steps of one second with a
\* test of the flag before each; with the flag set the loop leaves the sleep
\* at the test, goes to its while test and returns, starting no fetch; and
\* after a cycle body, whatever the interval, the flag unset, one step
\* at least is slept before the next cycle.
C16_SleepAbortsOnStop ==
    /\ [](pc["market"] = "sleeping" => timer["market"] <= SleepStep)
    /\ [](loop.last # "none" => pc["market"] = "sleep_check" /\ loop.left >= 1)
    /\ [][ /\ (stop_event /\ pc["market"] = "sleep_check")
                 => pc'["market"] \in {"sleep_check", "loop_check"}
           /\ (stop_event /\ pc["market"] = "sleeping")
                 => pc'["market"] \in {"sleeping", "sleep_check"}
           /\ (stop_event /\ pc["market"] = "loop_check")
                 => pc'["market"] \in {"loop_check", "sup_check"}
           /\ (~stop_event /\ pc["market"] = "sleep_check" /\ loop.left >= 1
                  /\ pc'["market"] # "sleep_check")
                 => pc'["market"] = "sleeping" /\ timer'["market"] = SleepStep
         ]_vars

\* C16 witness: the flag was set during a sleep of two steps, and the loop
\* has left the sleep for its while test with a step still to go.
C16_LeftSleepEarly ==
    /\ stop_event
    /\ pc["market"] = "loop_check"
    /\ loop.left >= 1

NotAuthorized == Replying("Not authorized.", 0)
WrongChat == Replying("Please run this command inside the target group.", 0)

\* C18: a step by which /addadmin, /deladmin, /bindgroup or /push of a
\* sender who is not in ADMIN_IDS is handled changes neither list and
\* leaves the worker in the reply "Not authorized."; so does /bindgroup of
\* any sender in a private chat, with one of the two refusals; and a worker
\* in a reply does nothing more than return.
C18_NonAdminHasNoEffect ==
    [][ \A w \in Workers :
          /\ \A user \in Users :
                ( /\ ~InList(user, ADMIN_IDS)
                  /\ \/ CmdPush(w, user)
                     \/ \E chat \in ChatsOf(user) : CmdBindgroup(w, user, chat)
                     \/ \E id \in Args : CmdAddadmin(w, user, id)
                     \/ \E id \in Args : CmdDeladmin(w, user, id) )
                => /\ ADMIN_IDS' = ADMIN_IDS
                   /\ MARKET_PUSH_CHAT_IDS' = MARKET_PUSH_CHAT_IDS
                   /\ handlers'[w] = NotAuthorized
          /\ \A user \in Users :
                CmdBindgroup(w, user, [ id |-> user, type |-> "private" ])
                => /\ MARKET_PUSH_CHAT_IDS' = MARKET_PUSH_CHAT_IDS
                   /\ handlers'[w] \in {NotAuthorized, WrongChat}
          /\ (handlers[w].cmd = "reply" /\ handlers'[w] # handlers[w])
                => /\ ADMIN_IDS' = ADMIN_IDS
                   /\ MARKET_PUSH_CHAT_IDS' = MARKET_PUSH_CHAT_IDS
                   /\ handlers'[w] = Idle
      ]_vars

\* C18 witness: there are admins, one worker has refused a sender who is
\* none of them and the other an admin's /bindgroup in a private chat.
C18_BothRefusals ==
    /\ ADMIN_IDS # << >>
    /\ \E w1, w2 \in Workers :
          handlers[w1] = NotAuthorized /\ handlers[w2] = WrongChat

\* C19 as claimed: when /deladmin has removed an id and replies so, the id
\* is in ADMIN_IDS no more.
C19_RemovedIsNoAdmin ==
    [][ \A w \in Workers :
          (handlers[w].cmd = "deladmin_remove" /\ handlers'[w].text = "Removed admin")
             => ~InList(handlers'[w].arg, ADMIN_IDS')
      ]_vars

\* No handler is past its is_admin test and before its return.
Quiescent == \A w \in Workers : handlers[w].cmd \in {"idle", "reply"}

\* What an empty admin list is claimed to forbid: no admin is added, no
\* destination is bound, no handler sends a snapshot.
NothingAdministered ==
    /\ ADMIN_IDS' = << >>
    /\ MARKET_PUSH_CHAT_IDS' = MARKET_PUSH_CHAT_IDS
    /\ \A w \in Workers : handlers'[w].cmd # "push_deliver"
                             \/ handlers'[w].sent = handlers[w].sent

\* C20 as claimed: once ADMIN_IDS is empty, nothing is administered.
C20_EmptyAdminsAbsorbing ==
    [][ ADMIN_IDS = << >> => NothingAdministered ]_vars

\* C20: once ADMIN_IDS is empty and no handler that passed is_admin is
\* still running, nothing is administered and no handler gets past
\* is_admin again; and no handler step changes anything of the threads.
C20_EmptyAdminsAbsorbingWhenQuiet ==
    [][ /\ (ADMIN_IDS = << >> /\ Quiescent) => (NothingAdministered /\ Quiescent')
        /\ UNCHANGED << alive, stop_event, pc, timer, loop, ended, crashes >>
      ]_vars

\* C20 witness: the last admin has removed their own id, and a command
\* that came after has been refused.
C20_LastAdminRemovedSelf ==
    /\ ADMIN_IDS = << >>
    /\ \E w1, w2 \in Workers :
          /\ handlers[w1] = Replying("Removed admin", 1)
          /\ handlers[w2] = NotAuthorized

====
